---------------------------- MODULE Spec2Model ----------------------------
(* ClipIt (src/app.py): the scan and clip request handlers, the audio      *)
(* analysis loop with its per-track merge, and the timestamp codec.        *)
(* Text is modelled as a sequence of one-character strings, seconds as     *)
(* integers, and a parsed float as a record that may be NaN.               *)
EXTENDS Integers, Sequences, FiniteSets, TLC

(***************************************************************************)
(* Program constants (src/app.py:22-24)                                    *)
(***************************************************************************)
CHUNK_DURATION == 12
OVERLAP == 4
MERGE_GAP == 30

(***************************************************************************)
(* Bounds of the model                                                     *)
(***************************************************************************)
MaxDuration == 49
MaxSeconds == 359999
MaxPlan == 100

(***************************************************************************)
(* Text helpers                                                            *)
(***************************************************************************)
DigitChars == <<"0", "1", "2", "3", "4", "5", "6", "7", "8", "9">>

IsDigit(c) == \E d \in 1..10 : DigitChars[d] = c

DigitVal(c) == (CHOOSE d \in 1..10 : DigitChars[d] = c) - 1

RECURSIVE Dec(_)
\* the decimal digits of a natural number, as "d" formatting prints them
Dec(n) == IF n < 10 THEN <<DigitChars[n + 1]>>
          ELSE Dec(n \div 10) \o <<DigitChars[(n % 10) + 1]>>

\* the format spec ":02d": at least two digits, zero padded
Pad2(n) == IF n < 10 THEN <<"0">> \o Dec(n) ELSE Dec(n)

\* variant: the hour is printed only from the second hour on
format_timestamp_late_hours(seconds) ==
    LET hours == seconds \div 3600
        minutes == (seconds % 3600) \div 60
        secs == seconds % 60
    IN  IF hours > 1
        THEN Pad2(hours) \o <<":">> \o Pad2(minutes) \o <<":">> \o Pad2(secs)
        ELSE Pad2(minutes) \o <<":">> \o Pad2(secs)

\* format_timestamp: floor division and floor modulo, as Python's // and %
format_timestamp(seconds) ==
    LET hours == seconds \div 3600
        minutes == (seconds % 3600) \div 60
        secs == seconds % 60
    IN  IF hours > 0
        THEN Pad2(hours) \o <<":">> \o Pad2(minutes) \o <<":">> \o Pad2(secs)
        ELSE Pad2(minutes) \o <<":">> \o Pad2(secs)

RECURSIVE Strip(_)
\* str.strip(): drops leading and trailing blanks
Strip(t) == IF t = <<>> THEN t
            ELSE IF Head(t) = " " THEN Strip(Tail(t))
            ELSE IF t[Len(t)] = " " THEN Strip(SubSeq(t, 1, Len(t) - 1))
            ELSE t

RECURSIVE Split(_)
\* str.split(':'): the fields between colons, empty fields kept
Split(t) ==
    IF \A k \in 1..Len(t) : t[k] # ":" THEN <<t>>
    ELSE LET k == CHOOSE k \in 1..Len(t) :
                      t[k] = ":" /\ \A j \in 1..(k - 1) : t[j] # ":"
         IN  <<SubSeq(t, 1, k - 1)>> \o Split(SubSeq(t, k + 1, Len(t)))

RECURSIVE DigitsVal(_)
DigitsVal(t) == IF t = <<>> THEN 0
                ELSE 10 * DigitsVal(SubSeq(t, 1, Len(t) - 1)) + DigitVal(t[Len(t)])

\* a float of the program: an integral number of seconds, or NaN
Num(v) == [nan |-> FALSE, v |-> v]
NaN == [nan |-> TRUE, v |-> 0]
Bad == [ok |-> FALSE, val |-> NaN]
Good(x) == [ok |-> TRUE, val |-> x]

\* the text after an optional sign
Unsigned(t) == IF t # <<>> /\ Head(t) \in {"-", "+"} THEN Tail(t) ELSE t
Sign(t) == IF t # <<>> /\ Head(t) = "-" THEN -1 ELSE 1
AllDigits(t) == t # <<>> /\ \A k \in 1..Len(t) : IsDigit(t[k])

\* int(text): blanks stripped, optional sign, decimal digits; else ValueError
PyInt(t) ==
    LET s == Strip(t)
    IN  IF AllDigits(Unsigned(s))
        THEN Good(Num(Sign(s) * DigitsVal(Unsigned(s))))
        ELSE Bad

\* float(text): as int(text) for integral literals, and it accepts "nan"
PyFloat(t) ==
    LET s == Strip(t)
    IN  IF AllDigits(Unsigned(s))
        THEN Good(Num(Sign(s) * DigitsVal(Unsigned(s))))
        ELSE IF Unsigned(s) = <<"n", "a", "n">> THEN Good(NaN)
        ELSE Bad

\* float arithmetic and comparisons: NaN propagates, and compares false
FAdd(a, b) == IF a.nan \/ b.nan THEN NaN ELSE Num(a.v + b.v)
FScale(k, a) == IF a.nan THEN NaN ELSE Num(k * a.v)
FLt(a, b) == ~a.nan /\ ~b.nan /\ a.v < b.v
FGe(a, b) == ~a.nan /\ ~b.nan /\ a.v >= b.v
FGt(a, b) == ~a.nan /\ ~b.nan /\ a.v > b.v

\* parse_timestamp: [ok |-> FALSE] stands for the ValueError
parse_timestamp(text) ==
    LET parts == Split(Strip(text))
    IN  IF Len(parts) = 2
        THEN LET minutes == PyInt(parts[1])
                 seconds == PyFloat(parts[2])
             IN  IF minutes.ok /\ seconds.ok
                 THEN Good(FAdd(FScale(60, minutes.val), seconds.val))
                 ELSE Bad
        ELSE IF Len(parts) = 3
        THEN LET hours == PyInt(parts[1])
                 minutes == PyInt(parts[2])
                 seconds == PyFloat(parts[3])
             IN  IF hours.ok /\ minutes.ok /\ seconds.ok
                 THEN Good(FAdd(FAdd(FScale(3600, hours.val),
                                     FScale(60, minutes.val)), seconds.val))
                 ELSE Bad
        ELSE Bad

(***************************************************************************)
(* Dictionaries: a Python dict is a function on its keys                   *)
(***************************************************************************)
EmptyDict == [k \in {} |-> 0]
Has(d, k) == k \in DOMAIN d
SetKey(d, k, v) == [x \in (DOMAIN d) \cup {k} |-> IF x = k THEN v ELSE d[x]]
\* dict.get(k, 'Unknown')
GetOrUnknown(d, k) == IF k \in DOMAIN d THEN d[k] ELSE "Unknown"

Min(a, b) == IF a < b THEN a ELSE b
Max(a, b) == IF a > b THEN a ELSE b

(***************************************************************************)
(* The temporary workspaces: the paths that exist on disk                  *)
(***************************************************************************)
Dir(d) == [dir |-> d, name |-> <<>>]
File(d, n) == [dir |-> d, name |-> n]
ChunkFile(i) == File("analyze_tmp", <<"chunk_">> \o Dec(i) \o <<".mp3">>)
\* shutil.rmtree(dir, ignore_errors=True)
Rmtree(files, d) == {p \in files : p.dir # d}

(***************************************************************************)
(* Window planning (analyze_audio, "Calculate chunks")                     *)
(***************************************************************************)
RECURSIVE ChunksNoClamp(_, _)
\* variant: the last window is not clamped to the analyzable duration
ChunksNoClamp(current_time, analyze_duration) ==
    IF current_time < analyze_duration
    THEN <<<<current_time, CHUNK_DURATION>>>>
         \o ChunksNoClamp(current_time + CHUNK_DURATION - OVERLAP, analyze_duration)
    ELSE <<>>

RECURSIVE Chunks(_, _)
Chunks(current_time, analyze_duration) ==
    IF current_time < analyze_duration
    THEN LET chunk_end == Min(current_time + CHUNK_DURATION, analyze_duration)
         IN  <<<<current_time, chunk_end - current_time>>>>
             \o Chunks(current_time + CHUNK_DURATION - OVERLAP, analyze_duration)
    ELSE <<>>

(***************************************************************************)
(* Recognition results                                                     *)
(***************************************************************************)
\* a missing key and a null value both read as None
None == [none |-> TRUE]

\* parse_audd_result(result): None unless the status is 'success' and the
\* response carries a 'result'; absent fields read 'Unknown'
parse_audd_result(result) ==
    IF GetOrUnknown(result, "status") # "success" \/ ~Has(result, "result")
    THEN None
    ELSE LET track == result["result"]
         IN  [title |-> GetOrUnknown(track, "title"),
              artists |-> <<GetOrUnknown(track, "artist")>>,
              album |-> GetOrUnknown(track, "album"),
              release_date |-> GetOrUnknown(track, "release_date"),
              label |-> GetOrUnknown(track, "label"),
              confidence |-> 100]

RECURSIVE Join(_)
\* '|'.join(artists)
Join(artists) == IF artists = <<>> THEN ""
                 ELSE IF Len(artists) = 1 THEN artists[1]
                 ELSE artists[1] \o "|" \o Join(Tail(artists))

song_key(parsed) == parsed.title \o "|" \o Join(parsed.artists)

\* detected_songs is an insertion-ordered dict: a sequence of [key, song]
IndexOf(detected, key) ==
    IF \E k \in 1..Len(detected) : detected[k].key = key
    THEN CHOOSE k \in 1..Len(detected) : detected[k].key = key
    ELSE 0

TimeRange(start_time, chunk_duration, duration) ==
    [start |-> format_timestamp(start_time),
     end |-> format_timestamp(Min(start_time + chunk_duration, duration)),
     start_seconds |-> start_time,
     end_seconds |-> Min(start_time + chunk_duration, duration)]

NewSong(parsed) ==
    [title |-> parsed.title, artists |-> parsed.artists, album |-> parsed.album,
     release_date |-> parsed.release_date, label |-> parsed.label,
     confidence |-> parsed.confidence, timestamps |-> <<>>, time_ranges |-> <<>>]

\* variant: every matching window overwrites the display fields
AddHitLastWins(detected, parsed, start_time, chunk_duration, duration) ==
    LET key == song_key(parsed)
        k == IndexOf(detected, key)
        r == TimeRange(start_time, chunk_duration, duration)
    IN  IF k = 0
        THEN Append(detected,
                    [key |-> key,
                     song |-> [NewSong(parsed) EXCEPT !.timestamps = <<start_time>>,
                                                      !.time_ranges = <<r>>]])
        ELSE [detected EXCEPT ![k].song =
                 [NewSong(parsed) EXCEPT
                     !.timestamps = Append(detected[k].song.timestamps, start_time),
                     !.time_ranges = Append(detected[k].song.time_ranges, r)]]

\* the body of "if parsed:" for one matching window
AddHit(detected, parsed, start_time, chunk_duration, duration) ==
    LET key == song_key(parsed)
        k == IndexOf(detected, key)
        withKey == IF k = 0
                   THEN Append(detected, [key |-> key, song |-> NewSong(parsed)])
                   ELSE detected
        j == IF k = 0 THEN Len(withKey) ELSE k
    IN  [withKey EXCEPT
            ![j].song.timestamps = Append(@, start_time),
            ![j].song.time_ranges =
                Append(@, TimeRange(start_time, chunk_duration, duration))]

\* variant: the entry is tagged with the index of the next window
ChunkErrorOffByOne(i, start_time, msg) ==
    [chunk |-> i + 1, at |-> format_timestamp(start_time), msg |-> msg]

\* f"Chunk {i} ({format_timestamp(start_time)}): {str(e)}"
ChunkError(i, start_time, msg) ==
    [chunk |-> i, at |-> format_timestamp(start_time), msg |-> msg]

\* str(e) of an exception raised while a window is processed
ExcText == "exception text"

\* str(e) of a failure outside the window loop
PlainError(msg) == [chunk |-> -1, at |-> <<>>, msg |-> msg]

(***************************************************************************)
(* Per-track merge and result ordering                                     *)
(***************************************************************************)
RECURSIVE InsertRange(_, _)
\* r goes after every range whose start is not greater: the sort is stable
InsertRange(sorted, r) ==
    IF sorted = <<>> THEN <<r>>
    ELSE IF sorted[Len(sorted)].start_seconds <= r.start_seconds
         THEN Append(sorted, r)
         ELSE Append(InsertRange(SubSeq(sorted, 1, Len(sorted) - 1), r),
                     sorted[Len(sorted)])

RECURSIVE SortRanges(_)
\* sorted(time_ranges, key=lambda x: x['start_seconds'])
SortRanges(ranges) ==
    IF ranges = <<>> THEN <<>>
    ELSE InsertRange(SortRanges(SubSeq(ranges, 1, Len(ranges) - 1)),
                     ranges[Len(ranges)])

\* variant: a hit is folded only when it starts inside the open range
MergeStepNoGap(merged, r) ==
    IF merged # <<>> /\ r.start_seconds <= merged[Len(merged)].end_seconds
    THEN LET e == Max(merged[Len(merged)].end_seconds, r.end_seconds)
         IN  [merged EXCEPT ![Len(merged)].end_seconds = e,
                            ![Len(merged)].end = format_timestamp(e)]
    ELSE Append(merged, r)

\* one turn of "for r in ranges"
MergeStep(merged, r) ==
    IF merged # <<>>
       /\ r.start_seconds <= merged[Len(merged)].end_seconds + MERGE_GAP
    THEN LET e == Max(merged[Len(merged)].end_seconds, r.end_seconds)
         IN  [merged EXCEPT ![Len(merged)].end_seconds = e,
                            ![Len(merged)].end = format_timestamp(e)]
    ELSE Append(merged, r)

RECURSIVE MergeAll(_)
MergeAll(ranges) ==
    IF ranges = <<>> THEN <<>>
    ELSE MergeStep(MergeAll(SubSeq(ranges, 1, Len(ranges) - 1)), ranges[Len(ranges)])

MergeRanges(time_ranges) == MergeAll(SortRanges(time_ranges))

\* the sort key of a song: the start of its first range, 0 without ranges
SongStart(song) ==
    IF song.time_ranges # <<>> THEN song.time_ranges[1].start_seconds ELSE 0

RECURSIVE InsertSongDescending(_, _)
InsertSongDescending(sorted, s) ==
    IF sorted = <<>> THEN <<s>>
    ELSE IF SongStart(sorted[Len(sorted)]) >= SongStart(s)
         THEN Append(sorted, s)
         ELSE Append(InsertSongDescending(SubSeq(sorted, 1, Len(sorted) - 1), s),
                     sorted[Len(sorted)])

RECURSIVE InsertSong(_, _)
InsertSong(sorted, s) ==
    IF sorted = <<>> THEN <<s>>
    ELSE IF SongStart(sorted[Len(sorted)]) <= SongStart(s)
         THEN Append(sorted, s)
         ELSE Append(InsertSong(SubSeq(sorted, 1, Len(sorted) - 1), s),
                     sorted[Len(sorted)])

RECURSIVE SortSongs(_)
\* results['songs'].sort(key=...): stable, ascending
SortSongs(songs) ==
    IF songs = <<>> THEN <<>>
    ELSE InsertSong(SortSongs(SubSeq(songs, 1, Len(songs) - 1)), songs[Len(songs)])

\* "Merge consecutive time ranges for each song", then the sort
FinishSongs(detected) ==
    SortSongs([k \in 1..Len(detected) |->
                  [detected[k].song EXCEPT !.time_ranges = MergeRanges(@)]])

(***************************************************************************)
(* Inputs of the model                                                     *)
(***************************************************************************)
\* what ffprobe may report for a media file, in seconds
Durations == {7, 30, MaxDuration}

\* the audio track extracted from a video is not longer than the video
AudioDurations(video) == {d \in Durations : d <= video}

\* the upload of a request: none, an empty name, a refused or allowed type
NoFile == [present |-> FALSE, filename |-> "", ext |-> ""]
Uploads == {NoFile,
            [present |-> TRUE, filename |-> "", ext |-> ""],
            [present |-> TRUE, filename |-> "notes.txt", ext |-> ".txt"],
            [present |-> TRUE, filename |-> "movie.mp4", ext |-> ".mp4"]}

allowed_extensions == {".mp4", ".mov", ".avi", ".mkv", ".webm", ".m4v", ".wmv", ".flv"}

\* the max_duration form field: absent, "0", "20", or not a number
MaxParams == {<<>>, <<"0">>, <<"2", "0">>, <<"x">>}

\* tracks the recognition service may report
Track1 == [title |-> "Song A", artist |-> "X", album |-> "Album 1",
           release_date |-> "2001", label |-> "L1"]
Track1Reissue == [title |-> "Song A", artist |-> "X", album |-> "Album 2",
                  release_date |-> "2002", label |-> "L2"]
Track2 == [title |-> "Song B", artist |-> "X"]
Tracks == {Track1, Track1Reissue, Track2}

\* the JSON a configured recognition call may return
Responses == {[status |-> "success", result |-> t] : t \in Tracks}
             \cup {[status |-> "success"], [status |-> "error"]}

\* timestamps a clip request may carry
TsTexts == {<<>>,
            <<"0", "0", ":", "0", "5">>,
            <<"0", "0", ":", "1", "0">>,
            <<" ", "0", "0", ":", "4", "0">>,
            <<"0", "0", ":", "0", "0", ":", "0", "8">>,
            <<"0", "0", ":", "-", "1">>,
            <<"0", ":", "n", "a", "n">>,
            <<"1", "0">>,
            <<"1", ":", "2", ":", "3", ":", "4">>,
            <<"0", "0", ":", "x">>}

(***************************************************************************)
(* State                                                                   *)
(***************************************************************************)
VARIABLES
    pc,              \* position of the request being served
    AUDD_API_TOKEN,  \* module-level credential, "" when not configured
    file,            \* request.files['file']
    files,           \* paths that exist under the temporary directories
    response,        \* [status, body] once the handler has returned
    max_param,       \* scan: the max_duration form field, as sent
    max_duration,    \* scan: its float value, or None
    video_duration,  \* scan: duration of the uploaded video
    duration,        \* analyze_audio: duration of the extracted audio
    analyze_duration,
    chunks,          \* analyze_audio: the planned (start, length) windows
    i,               \* analyze_audio: index of the next window
    detected_songs,
    results,
    log,             \* history: what each processed window came back with
    start_ts, end_ts,             \* clip: the form fields
    start_seconds, end_seconds,   \* clip: their parsed values
    clip_duration,                \* clip: duration of the uploaded video
    clip_calls,                   \* clip: invocations of clip_video_no_audio
    codec_pc, codec_s, codec_text, codec_val

scan_vars == <<max_param, max_duration, video_duration, duration, analyze_duration,
               chunks, i, detected_songs, results, log>>
clip_vars == <<start_ts, end_ts, start_seconds, end_seconds, clip_duration,
               clip_calls>>
codec_vars == <<codec_pc, codec_s, codec_text, codec_val>>
vars == <<pc, AUDD_API_TOKEN, file, files, response, scan_vars, clip_vars,
          codec_vars>>

NewResults == [songs |-> <<>>, analysis_chunks |-> 0, errors |-> <<>>]

Idle ==
    /\ pc = "idle"
    /\ file = NoFile
    /\ files = {}
    /\ response = [status |-> 0, body |-> EmptyDict]
    /\ max_param = <<>>
    /\ max_duration = None
    /\ video_duration = 0
    /\ duration = 0
    /\ analyze_duration = 0
    /\ chunks = <<>>
    /\ i = 0
    /\ detected_songs = <<>>
    /\ results = EmptyDict
    /\ log = <<>>
    /\ start_ts = <<>>
    /\ end_ts = <<>>
    /\ start_seconds = NaN
    /\ end_seconds = NaN
    /\ clip_duration = 0
    /\ clip_calls = <<>>

Init ==
    /\ Idle
    /\ AUDD_API_TOKEN \in {"", "token"}
    /\ codec_pc = "off"
    /\ codec_s = 0
    /\ codec_text = <<>>
    /\ codec_val = Bad

\* jsonify({'error': msg}), status
Respond(status, body) == response' = [status |-> status, body |-> body]
ErrorBody(msg) == [error |-> msg]

(***************************************************************************)
(* scan()                                                                  *)
(***************************************************************************)
\* except Exception -> 500, and the finally clause of scan
ScanFail(msg) ==
    /\ Respond(500, ErrorBody(msg))
    /\ files' = Rmtree(files, "scan_tmp")
    /\ pc' = "done"

\* return jsonify(body) from inside the try, and the finally clause of scan
ScanReturn(body, disk) ==
    /\ Respond(200, body)
    /\ files' = Rmtree(disk, "scan_tmp")
    /\ pc' = "done"

\* the request checks, then tempfile.mkdtemp()
ScanStart ==
    /\ pc = "idle"
    /\ \E f \in Uploads, m \in MaxParams :
          /\ file' = f
          /\ max_param' = m
          /\ IF ~f.present
             THEN Respond(400, ErrorBody("No file uploaded"))
                  /\ pc' = "done" /\ UNCHANGED files
             ELSE IF f.filename = ""
             THEN Respond(400, ErrorBody("No file selected"))
                  /\ pc' = "done" /\ UNCHANGED files
             ELSE IF f.ext \notin allowed_extensions
             THEN Respond(400, ErrorBody("Invalid file type"))
                  /\ pc' = "done" /\ UNCHANGED files
             ELSE /\ files' = files \cup {Dir("scan_tmp")}
                  /\ pc' = "scan_save"
                  /\ UNCHANGED response
    /\ UNCHANGED <<AUDD_API_TOKEN, max_duration, video_duration, duration,
                   analyze_duration, chunks, i, detected_songs, log, results,
                   clip_vars, codec_vars>>

\* file.save(video_path)
ScanSave ==
    /\ pc = "scan_save"
    /\ \/ /\ files' = files \cup {File("scan_tmp", <<"input">>)}
          /\ pc' = "scan_probe"
          /\ UNCHANGED response
       \/ ScanFail("save failed")
    /\ UNCHANGED <<AUDD_API_TOKEN, file, scan_vars, clip_vars, codec_vars>>

\* duration = get_media_duration(video_path)
ScanProbe ==
    /\ pc = "scan_probe"
    /\ \/ /\ \E d \in Durations : video_duration' = d
          /\ pc' = "scan_audio"
          /\ UNCHANGED <<files, response>>
       \/ ScanFail("ffprobe failed") /\ UNCHANGED video_duration
    /\ UNCHANGED <<AUDD_API_TOKEN, file, max_param, max_duration, duration,
                   analyze_duration, chunks, i, detected_songs, log, results,
                   clip_vars, codec_vars>>

NoAudioBody ==
    [filename |-> file.filename,
     video_duration |-> video_duration,
     video_duration_formatted |-> format_timestamp(video_duration),
     songs |-> <<>>,
     analysis_chunks |-> 0,
     scan_mode |-> <<"N/A">>,
     errors |-> <<PlainError("Video has no audio track")>>]

\* has_audio = extract_audio_from_video(video_path, audio_path)
ScanExtractAudio ==
    /\ pc = "scan_audio"
    /\ \/ /\ files' = files \cup {File("scan_tmp", <<"audio.mp3">>)}
          /\ pc' = "scan_analyze"
          /\ UNCHANGED response
       \/ ScanReturn(NoAudioBody, files)
       \/ ScanFail("ffmpeg timed out")
    /\ UNCHANGED <<AUDD_API_TOKEN, file, scan_vars, clip_vars, codec_vars>>

\* the max_duration parameter, then the entry of analyze_audio: the results
\* dict and its own tempfile.mkdtemp()
ScanAnalyze ==
    /\ pc = "scan_analyze"
    /\ LET parsed == PyFloat(max_param)
       IN  IF max_param # <<>> /\ ~parsed.ok
           THEN /\ ScanFail("could not convert string to float")
                /\ UNCHANGED <<max_duration, results>>
           ELSE /\ max_duration' = IF max_param # <<>> THEN parsed.val ELSE None
                /\ results' = NewResults
                /\ files' = files \cup {Dir("analyze_tmp")}
                /\ pc' = "analyze_probe"
                /\ UNCHANGED response
    /\ UNCHANGED <<AUDD_API_TOKEN, file, max_param, video_duration, duration,
                   analyze_duration, chunks, i, detected_songs, log, clip_vars,
                   codec_vars>>

\* what scan adds to the results of analyze_audio
Attach(res) ==
    SetKey(SetKey(SetKey(res, "filename", file.filename),
                  "video_duration", video_duration),
           "video_duration_formatted", format_timestamp(video_duration))

\* analyze_audio returns res (its finally clause removes its directory),
\* scan attaches its fields and returns
AnalyzeReturn(res) ==
    /\ results' = res
    /\ ScanReturn(Attach(res), Rmtree(files, "analyze_tmp"))

\* "if max_duration": set, and not zero
Truthy(x) == x # None /\ (x.nan \/ x.v # 0)

\* get_media_duration(audio_path), the max_duration limit, the chunks
AnalyzeProbe ==
    /\ pc = "analyze_probe"
    /\ \/ \E d \in AudioDurations(video_duration) :
            LET limited == Truthy(max_duration) /\ FLt(max_duration, Num(d))
                T == IF limited THEN max_duration.v ELSE d
                mode == IF limited
                        THEN <<"First ">> \o format_timestamp(max_duration.v)
                        ELSE <<"Full video">>
                planned == Chunks(0, T)
            IN  /\ duration' = d
                /\ analyze_duration' = T
                /\ chunks' = planned
                /\ results' = [SetKey(results, "scan_mode", mode)
                                   EXCEPT !.analysis_chunks = Len(planned)]
                /\ pc' = "analyze_loop"
                /\ UNCHANGED <<files, response>>
       \/ /\ AnalyzeReturn([results EXCEPT
                               !.errors = Append(@, PlainError("ffprobe failed"))])
          /\ UNCHANGED <<duration, analyze_duration, chunks>>
    /\ UNCHANGED <<AUDD_API_TOKEN, file, max_param, max_duration, video_duration,
                   i, detected_songs, log, clip_vars, codec_vars>>

\* recognize_with_audd: the error dict without a token, else the service's JSON
NoTokenResult == [error |-> "AudD API token not configured"]

RecognizeResults == IF AUDD_API_TOKEN = "" THEN {NoTokenResult} ELSE Responses

\* one turn of "for i, (start_time, chunk_duration) in enumerate(chunks)"
AnalyzeChunk ==
    /\ pc = "analyze_loop"
    /\ i < Len(chunks)
    /\ LET start_time == chunks[i + 1][1]
           chunk_duration == chunks[i + 1][2]
       IN  \/ \* extract_audio_chunk raises (non-zero exit or timeout); what
              \* ffmpeg wrote of the chunk stays behind
              /\ results' = [results EXCEPT !.errors =
                                Append(@, ChunkError(i, start_time, ExcText))]
              /\ files' = files \cup {ChunkFile(i)}
              /\ log' = Append(log, [raised |-> TRUE, parsed |-> None])
              /\ UNCHANGED detected_songs
           \/ \* the recognition request raises: the chunk file stays behind
              /\ AUDD_API_TOKEN # ""
              /\ results' = [results EXCEPT !.errors =
                                Append(@, ChunkError(i, start_time, ExcText))]
              /\ files' = files \cup {ChunkFile(i)}
              /\ log' = Append(log, [raised |-> TRUE, parsed |-> None])
              /\ UNCHANGED detected_songs
           \/ \* a response arrives; the chunk file is written and removed
              \E result \in RecognizeResults :
                 LET parsed == parse_audd_result(result)
                 IN  /\ detected_songs' =
                           IF parsed # None
                           THEN AddHit(detected_songs, parsed, start_time,
                                       chunk_duration, duration)
                           ELSE detected_songs
                     /\ log' = Append(log, [raised |-> FALSE, parsed |-> parsed])
                     /\ UNCHANGED <<files, results>>
    /\ i' = i + 1
    /\ UNCHANGED <<pc, AUDD_API_TOKEN, file, response, max_param, max_duration,
                   video_duration, duration, analyze_duration, chunks,
                   clip_vars, codec_vars>>

\* the merge of every song's ranges, the sort, and the return through scan
AnalyzeFinish ==
    /\ pc = "analyze_loop"
    /\ i = Len(chunks)
    /\ AnalyzeReturn([results EXCEPT !.songs = FinishSongs(detected_songs)])
    /\ UNCHANGED <<AUDD_API_TOKEN, file, max_param, max_duration, video_duration,
                   duration, analyze_duration, chunks, i, detected_songs, log,
                   clip_vars, codec_vars>>

(***************************************************************************)
(* clip()                                                                  *)
(***************************************************************************)
\* the finally clause of clip: only the uploaded input is removed
ClipFinally(disk) == disk \ {File("clip_tmp", <<"input">>)}

ClipFail(msg) ==
    /\ Respond(500, ErrorBody(msg))
    /\ files' = ClipFinally(files)
    /\ pc' = "done"

ClipReject(msg) ==
    /\ Respond(400, ErrorBody(msg))
    /\ pc' = "done"

\* the request checks up to tempfile.mkdtemp()
ClipStart ==
    /\ pc = "idle"
    /\ \E f \in Uploads, s \in TsTexts, e \in TsTexts :
          LET ps == parse_timestamp(s)
              pe == parse_timestamp(e)
          IN  /\ file' = f
              /\ start_ts' = s
              /\ end_ts' = e
              /\ IF ~f.present
                 THEN ClipReject("No file uploaded")
                      /\ UNCHANGED <<files, start_seconds, end_seconds>>
                 ELSE IF f.filename = ""
                 THEN ClipReject("No file selected")
                      /\ UNCHANGED <<files, start_seconds, end_seconds>>
                 ELSE IF s = <<>> \/ e = <<>>
                 THEN ClipReject("Start and end timestamps are required")
                      /\ UNCHANGED <<files, start_seconds, end_seconds>>
                 ELSE IF f.ext \notin allowed_extensions
                 THEN ClipReject("Invalid file type")
                      /\ UNCHANGED <<files, start_seconds, end_seconds>>
                 ELSE IF ~ps.ok
                 THEN ClipReject("Invalid timestamp format")
                      /\ UNCHANGED <<files, start_seconds, end_seconds>>
                 ELSE IF ~pe.ok
                 THEN ClipReject("Invalid timestamp format")
                      /\ start_seconds' = ps.val
                      /\ UNCHANGED <<files, end_seconds>>
                 ELSE /\ start_seconds' = ps.val
                      /\ end_seconds' = pe.val
                      /\ IF FGe(ps.val, pe.val)
                         THEN ClipReject("Start time must be before end time")
                              /\ UNCHANGED files
                         ELSE IF FLt(ps.val, Num(0))
                         THEN ClipReject("Start time cannot be negative")
                              /\ UNCHANGED files
                         ELSE /\ files' = files \cup {Dir("clip_tmp")}
                              /\ pc' = "clip_save"
                              /\ UNCHANGED response
    /\ UNCHANGED <<AUDD_API_TOKEN, scan_vars, clip_duration, clip_calls,
                   codec_vars>>

\* file.save(input_path)
ClipSave ==
    /\ pc = "clip_save"
    /\ \/ /\ files' = files \cup {File("clip_tmp", <<"input">>)}
          /\ pc' = "clip_probe"
          /\ UNCHANGED response
       \/ ClipFail("save failed")
    /\ UNCHANGED <<AUDD_API_TOKEN, file, scan_vars, clip_vars, codec_vars>>

\* duration = get_media_duration(input_path), then the check of the end
ClipProbe ==
    /\ pc = "clip_probe"
    /\ \/ \E d \in Durations :
            /\ clip_duration' = d
            /\ IF FGt(end_seconds, Num(d))
               THEN /\ ClipReject("End time exceeds video duration")
                    /\ files' = ClipFinally(files)
               ELSE /\ pc' = "clip_extract"
                    /\ UNCHANGED <<files, response>>
       \/ ClipFail("ffprobe failed") /\ UNCHANGED clip_duration
    /\ UNCHANGED <<AUDD_API_TOKEN, file, scan_vars, start_ts, end_ts,
                   start_seconds, end_seconds, clip_calls, codec_vars>>

\* clip_video_no_audio(input_path, output_path, start, end), then send_file
ClipExtract ==
    /\ pc = "clip_extract"
    /\ clip_calls' = Append(clip_calls,
                            [start_time |-> start_seconds, end_time |-> end_seconds])
    /\ \/ /\ Respond(200, [attachment |-> "output.mp4"])
          /\ files' = ClipFinally(files \cup {File("clip_tmp", <<"output.mp4">>)})
          /\ pc' = "done"
       \/ ClipFail("ffmpeg failed")
    /\ UNCHANGED <<AUDD_API_TOKEN, file, scan_vars, start_ts, end_ts,
                   start_seconds, end_seconds, clip_duration, codec_vars>>

(***************************************************************************)
(* The requests                                                            *)
(***************************************************************************)
Next ==
    \/ ScanStart \/ ScanSave \/ ScanProbe \/ ScanExtractAudio \/ ScanAnalyze
    \/ AnalyzeProbe \/ AnalyzeChunk \/ AnalyzeFinish
    \/ ClipStart \/ ClipSave \/ ClipProbe \/ ClipExtract

Spec == Init /\ [][Next]_vars

(***************************************************************************)
(* Properties of a scan                                                    *)
(***************************************************************************)
\* analyze_audio has planned its windows
Planned == Has(results, "scan_mode")
\* the scan has returned the results of a completed analysis
Scanned == pc = "done" /\ response.status = 200 /\ Planned

Stride == CHUNK_DURATION - OVERLAP
\* the number of k >= 0 with k * Stride < T, for T > 0
WindowCount(T) == (T + Stride - 1) \div Stride
\* the k-th window (k from 0) of an analyzable duration T
Window(k, T) == <<k * Stride, Min(k * Stride + CHUNK_DURATION, T) - k * Stride>>
WindowsOf(T) == [k \in 1..WindowCount(T) |-> Window(k - 1, T)]

WellPlanned(w, T) ==
    /\ w = WindowsOf(T)
    /\ \A k \in 1..Len(w) :
          /\ w[k][2] > 0
          /\ w[k][1] + w[k][2] <= T
          /\ (w[k][2] < CHUNK_DURATION => w[k][1] + w[k][2] = T)
          /\ (k > 1 => w[k - 1][1] < w[k][1])

\* the planner on every duration up to MaxPlan, and on the duration 30
PlanExamples ==
    /\ \A T \in 1..MaxPlan : WellPlanned(Chunks(0, T), T)
    /\ Chunks(0, 30) = <<<<0, 12>>, <<8, 12>>, <<16, 12>>, <<24, 6>>>>

\* C2: for an analyzable duration T > 0 the planned windows are exactly
\* (k*(C-O), min(k*(C-O)+C, T) - k*(C-O)) for the k with k*(C-O) < T: starts
\* strictly increase, every length is positive, no window passes T, only a
\* window reaching T is shorter than C, and analysis_chunks counts them;
\* T = 30 gives (0,12), (8,12), (16,12), (24,6).
WindowPlan ==
    /\ (pc = "idle" => PlanExamples)
    /\ (Planned /\ analyze_duration > 0) =>
          /\ WellPlanned(chunks, analyze_duration)
          /\ results.analysis_chunks = Len(chunks)

WindowPlanWitness ==
    /\ pc = "analyze_loop"
    /\ analyze_duration = 30
    /\ Len(chunks) = 4
    /\ chunks[4] = <<24, 6>>
    /\ results.analysis_chunks = 4

\* the windows of the log that matched the key, as indices into chunks
HitsOf(key) ==
    {k \in 1..Len(log) : log[k].parsed # None /\ song_key(log[k].parsed) = key}
KeyOf(song) == song_key([title |-> song.title, artists |-> song.artists])
HitStart(k) == chunks[k][1]
HitEnd(k) == Min(chunks[k][1] + chunks[k][2], duration)

\* a raw hit of the merge examples: the window at start, CHUNK_DURATION long
Hit(start) == TimeRange(start, CHUNK_DURATION, 1000)
Bounds(ranges) ==
    [k \in 1..Len(ranges) |-> <<ranges[k].start_seconds, ranges[k].end_seconds>>]

\* the merge on the hits at 0, 8, 16, and with a further hit at 100
MergeExamples ==
    /\ Bounds(MergeRanges(<<Hit(0), Hit(8), Hit(16)>>)) = <<<<0, 28>>>>
    /\ Bounds(MergeRanges(<<Hit(0), Hit(8), Hit(16), Hit(100)>>))
          = <<<<0, 28>>, <<100, 112>>>>

\* C1: in every scan result two consecutive ranges of a track satisfy
\* next.start > previous.end + MERGE_GAP; every range opens at a hit of the
\* track and ends at the largest end of the hits folded into it, and every
\* hit lies in one range; hits at 0, 8, 16 merge into [0,28] and a further
\* hit [100,112] stays separate.
MergedRanges ==
    /\ (pc = "idle" => MergeExamples)
    /\ Scanned =>
          \A n \in 1..Len(results.songs) :
             LET song == results.songs[n]
                 r == song.time_ranges
                 hits == HitsOf(KeyOf(song))
                 In(h, k) == /\ r[k].start_seconds <= HitStart(h)
                             /\ HitEnd(h) <= r[k].end_seconds
             IN  /\ \A k \in 1..(Len(r) - 1) :
                       r[k + 1].start_seconds > r[k].end_seconds + MERGE_GAP
                 /\ \A k \in 1..Len(r) :
                       /\ \E h \in hits : HitStart(h) = r[k].start_seconds
                       /\ \E h \in hits : In(h, k) /\ HitEnd(h) = r[k].end_seconds
                       /\ r[k].start = format_timestamp(r[k].start_seconds)
                       /\ r[k].end = format_timestamp(r[k].end_seconds)
                 /\ \A h \in hits : \E k \in 1..Len(r) : In(h, k)
                 /\ \A h \in hits, g \in hits :
                       (h < g /\ HitStart(g) <= HitEnd(h) + MERGE_GAP) =>
                          \E k \in 1..Len(r) : In(h, k) /\ In(g, k)

MergedRangesWitness ==
    /\ Scanned
    /\ \E n \in 1..Len(results.songs) :
          Len(results.songs[n].time_ranges) = 2
    /\ \E n \in 1..Len(results.songs) :
          /\ Len(results.songs[n].time_ranges) = 1
          /\ Len(results.songs[n].timestamps) >= 2
          /\ results.songs[n].time_ranges[1].end_seconds
                > results.songs[n].timestamps[1] + CHUNK_DURATION + OVERLAP

\* C3: the result holds one song per distinct key among the matched windows;
\* a song's timestamps are the starts of the windows that matched its own key
\* and its ranges are built from those windows only; album, release_date and
\* label are those of the first window that matched the key.
Grouping ==
    Scanned =>
       /\ \A a \in 1..Len(results.songs), b \in 1..Len(results.songs) :
             a # b => KeyOf(results.songs[a]) # KeyOf(results.songs[b])
       /\ {KeyOf(results.songs[n]) : n \in 1..Len(results.songs)}
             = {song_key(log[k].parsed) : k \in {j \in 1..Len(log) : log[j].parsed # None}}
       /\ \A n \in 1..Len(results.songs) :
             LET song == results.songs[n]
                 hits == HitsOf(KeyOf(song))
                 first == CHOOSE h \in hits : \A g \in hits : h <= g
             IN  /\ Len(song.timestamps) = Cardinality(hits)
                 /\ {song.timestamps[k] : k \in 1..Len(song.timestamps)}
                       = {HitStart(h) : h \in hits}
                 /\ \A k \in 1..(Len(song.timestamps) - 1) :
                       song.timestamps[k] < song.timestamps[k + 1]
                 /\ \A k \in 1..Len(song.time_ranges) :
                       /\ song.time_ranges[k].start_seconds
                             \in {HitStart(h) : h \in hits}
                       /\ song.time_ranges[k].end_seconds
                             \in {HitEnd(h) : h \in hits}
                 /\ song.album = log[first].parsed.album
                 /\ song.release_date = log[first].parsed.release_date
                 /\ song.label = log[first].parsed.label

GroupingWitness ==
    /\ Scanned
    /\ Len(results.songs) = 2
    /\ \E n \in 1..2 :
          /\ results.songs[n].album = "Album 1"
          /\ \E h \in HitsOf(KeyOf(results.songs[n])) : log[h].parsed.album = "Album 2"
    /\ \E k \in 1..(Len(log) - 1) :
          /\ log[k].parsed # None /\ log[k + 1].parsed # None
          /\ song_key(log[k].parsed) # song_key(log[k + 1].parsed)

\* the windows of the log whose extraction or recognition raised, ascending
RECURSIVE RaisedUpTo(_)
RaisedUpTo(n) == IF n = 0 THEN <<>>
                 ELSE IF log[n].raised THEN Append(RaisedUpTo(n - 1), n)
                 ELSE RaisedUpTo(n - 1)

\* C4: every window whose extraction or recognition raised has exactly one
\* entry in errors, tagged with its index and its formatted start, the
\* entries are in ascending window order, every window is processed, and
\* every window that matched is in songs whatever failed before it.
ErrorIsolation ==
    /\ (Planned /\ pc = "analyze_loop") => Len(log) = i
    /\ Planned =>
          LET raised == RaisedUpTo(Len(log))
          IN  /\ Len(results.errors) = Len(raised)
              /\ \A k \in 1..Len(raised) :
                    /\ results.errors[k].chunk = raised[k] - 1
                    /\ results.errors[k].at = format_timestamp(HitStart(raised[k]))
              /\ \A k \in 1..(Len(results.errors) - 1) :
                    results.errors[k].chunk < results.errors[k + 1].chunk
    /\ Scanned =>
          /\ Len(log) = Len(chunks)
          /\ \A h \in 1..Len(log) :
                log[h].parsed # None =>
                   \E n \in 1..Len(results.songs) :
                      /\ KeyOf(results.songs[n]) = song_key(log[h].parsed)
                      /\ \E k \in 1..Len(results.songs[n].timestamps) :
                            results.songs[n].timestamps[k] = HitStart(h)

ErrorIsolationWitness ==
    /\ Scanned
    /\ Len(results.errors) = 2
    /\ results.errors[1].chunk + 1 < results.errors[2].chunk
    /\ \E h \in 1..Len(log) :
          /\ h - 1 > results.errors[1].chunk
          /\ log[h].parsed # None
    /\ Len(results.songs) >= 1

\* three songs whose first ranges start at 50, 0 and 20, and two that tie
SongAt(title, start) ==
    [NewSong(parse_audd_result([status |-> "success", result |-> [title |-> title]]))
        EXCEPT !.timestamps = <<start>>, !.time_ranges = <<Hit(start)>>]
Titles(songs) == [k \in 1..Len(songs) |-> songs[k].title]

\* the position of a song's key in detected_songs: its first detection
DetectionOrder(song) == IndexOf(detected_songs, KeyOf(song))

\* the sort on first-range starts 50, 0, 20, and on a tie
SortExamples ==
    /\ Titles(SortSongs(<<SongAt("p", 50), SongAt("q", 0), SongAt("r", 20)>>))
          = <<"q", "r", "p">>
    /\ Titles(SortSongs(<<SongAt("p", 10), SongAt("q", 10), SongAt("r", 0)>>))
          = <<"r", "p", "q">>

\* C5: the songs of a scan result are in ascending order of the start of
\* their first range, and songs whose first ranges start at the same second
\* keep their order of first detection; starts 50, 0, 20 come out 0, 20, 50.
SongOrder ==
    /\ (pc = "idle" => SortExamples)
    /\ Scanned =>
          \A a \in 1..Len(results.songs), b \in 1..Len(results.songs) :
             a < b =>
                /\ SongStart(results.songs[a]) <= SongStart(results.songs[b])
                /\ SongStart(results.songs[a]) = SongStart(results.songs[b]) =>
                      DetectionOrder(results.songs[a]) < DetectionOrder(results.songs[b])

SongOrderWitness ==
    /\ Scanned
    /\ Len(results.songs) = 2
    /\ SongStart(results.songs[1]) < SongStart(results.songs[2])
    /\ Len(results.songs[1].timestamps) >= 2
    /\ results.songs[1].timestamps[2] > SongStart(results.songs[2])

\* C8: a scan run without a recognition credential reports the missing
\* credential exactly once in its errors, whatever the number of windows.
CredentialReportedOnce ==
    (Scanned /\ AUDD_API_TOKEN = "") =>
       Cardinality({k \in 1..Len(results.errors) :
                       results.errors[k].msg = NoTokenResult.error}) = 1

\* C9: when a max_duration is supplied and is smaller than the duration of the
\* analysed media, no window and no reported range passes max_duration and
\* scan_mode is the partial label with the formatted max_duration; otherwise
\* the windows cover the full duration and scan_mode is the full label.
PartialScan ==
    Planned =>
       LET supplied == max_param # <<>>
           m == PyFloat(max_param).val
       IN  IF supplied /\ FLt(m, Num(duration))
           THEN /\ \A k \in 1..Len(chunks) : chunks[k][1] + chunks[k][2] <= m.v
                /\ results.scan_mode = <<"First ">> \o format_timestamp(m.v)
                /\ \A n \in 1..Len(results.songs) :
                      \A k \in 1..Len(results.songs[n].time_ranges) :
                         results.songs[n].time_ranges[k].end_seconds <= m.v
           ELSE /\ analyze_duration = duration
                /\ chunks # <<>>
                /\ chunks[Len(chunks)][1] + chunks[Len(chunks)][2] = duration
                /\ results.scan_mode = <<"Full video">>

(***************************************************************************)
(* Properties of a clip                                                    *)
(***************************************************************************)
FLe(a, b) == ~a.nan /\ ~b.nan /\ a.v <= b.v

\* C6: clip_video_no_audio is invoked only with 0 <= start < end <= probed
\* duration; a request whose start is not before its end, whose start is
\* negative, or whose end passes the probed duration is answered 400 and the
\* extractor is not invoked.
ClipPrecondition ==
    /\ \A k \in 1..Len(clip_calls) :
          /\ FLe(Num(0), clip_calls[k].start_time)
          /\ FLt(clip_calls[k].start_time, clip_calls[k].end_time)
          /\ FLe(clip_calls[k].end_time, Num(clip_duration))
    /\ (pc = "done" /\ clip_duration > 0
          /\ (\/ FGe(start_seconds, end_seconds)
              \/ FLt(start_seconds, Num(0))
              \/ FGt(end_seconds, Num(clip_duration)))) =>
          (response.status = 400 /\ clip_calls = <<>>)

\* C7: once a scan or clip request has returned, nothing of the temporary
\* workspaces it created is left: no directory, no input, no output.
WorkspaceRemoved == pc = "done" => files = {}

(***************************************************************************)
(* The codec on its own: format a number of seconds, parse the text back   *)
(***************************************************************************)
CodecInit ==
    /\ Idle
    /\ AUDD_API_TOKEN = ""
    /\ codec_pc = "start"
    /\ codec_s \in 0..MaxSeconds
    /\ codec_text = <<>>
    /\ codec_val = Bad

CodecFormat ==
    /\ codec_pc = "start"
    /\ codec_text' = format_timestamp(codec_s)
    /\ codec_pc' = "formatted"
    /\ UNCHANGED <<pc, AUDD_API_TOKEN, file, files, response, scan_vars,
                   clip_vars, codec_s, codec_val>>

CodecParse ==
    /\ codec_pc = "formatted"
    /\ codec_val' = parse_timestamp(codec_text)
    /\ codec_pc' = "parsed"
    /\ UNCHANGED <<pc, AUDD_API_TOKEN, file, files, response, scan_vars,
                   clip_vars, codec_s, codec_text>>

CodecNext == CodecFormat \/ CodecParse

SpecCodec == CodecInit /\ [][CodecNext]_vars

\* C10: parse_timestamp(format_timestamp(s)) = s for every integer s in
\* 0..359999; the text is MM:SS below 3600 seconds, HH:MM:SS from 3600 on.
RoundTrip ==
    /\ codec_pc \in {"formatted", "parsed"} =>
          Len(Split(codec_text)) = (IF codec_s < 3600 THEN 2 ELSE 3)
    /\ codec_pc = "parsed" => codec_val = Good(Num(codec_s))

RoundTripWitness == codec_pc = "parsed" /\ codec_s >= 3600 /\ codec_val.ok

=============================================================================
